---------------------------- MODULE Spec2Model ----------------------------
(***************************************************************************)
(* A model of the yoopass-api secret lifecycle: the save handler (Create), *)
(* the fetch handler (Retrieve), the cipher codec and the Redis store.     *)
(*                                                                         *)
(* Random 128-bit values (the uuid, the key, the nonce) are modelled as    *)
(* fresh: the n-th successful draw differs from every earlier one.         *)
(* Time advances in whole hours (Tick); a duration is counted in units of  *)
(* which Hour make one hour, in a signed integer of DurBits bits, so that  *)
(* the conversion of save.go:158 wraps as the int64 product does.          *)
(***************************************************************************)
EXTENDS Integers, Sequences, FiniteSets, TLC

\* ------------------------------------------------------------------ bounds

\* Secrets that may be created in one behaviour.
MaxSecrets == 1

\* Width of the scaled-down time.Duration, and the scaled-down time.Hour.
DurBits == 6
Hour == 4

\* The request handlers that may be in flight at once.
Procs == {"r1", "r2"}

ProcOrder == [p \in Procs |-> IF p = "r1" THEN 1 ELSE 2]

\* ----------------------------------------------------------- cipher codec

KeySize == 16
NonceSize == 12

HexDigits == <<"0", "1", "2", "3", "4", "5", "6", "7",
               "8", "9", "a", "b", "c", "d", "e", "f">>

HexDigitSet == {HexDigits[i] : i \in 1..16}

IsHexDigit(c) == c \in HexDigitSet

HexValues == [c \in HexDigitSet |-> (CHOOSE i \in 1..16 : HexDigits[i] = c) - 1]

HexVal(c) == HexValues[c]

\* hex.EncodeToString: two digits per byte, high nibble first.
HexEncode(bytes) ==
  [i \in 1..(2 * Len(bytes)) |->
     IF i % 2 = 1 THEN HexDigits[(bytes[(i + 1) \div 2] \div 16) + 1]
                  ELSE HexDigits[(bytes[i \div 2] % 16) + 1]]

\* hex.DecodeString: an error on an odd length or on a character that is no
\* hex digit, else the bytes.
HexDecode(s) ==
  IF Len(s) % 2 = 1 \/ \E i \in 1..Len(s) : ~IsHexDigit(s[i])
  THEN [err |-> "encoding/hex: invalid input", bytes |-> <<>>]
  ELSE [err |-> "",
        bytes |-> [i \in 1..(Len(s) \div 2) |->
                     16 * HexVal(s[2 * i - 1]) + HexVal(s[2 * i])]]

\* Mutant of ValidKeyLen: a key of any length makes a cipher block.
ValidKeyLenAny(keyBytes) == TRUE

\* aes.NewCipher: only keys of 16, 24 or 32 bytes make a cipher block.
ValidKeyLen(keyBytes) == Len(keyBytes) \in {16, 24, 32}

\* The n-th draw of k bytes from rand.Reader: fresh, so it differs per draw.
RandBytes(k, seed) == [i \in 1..k |-> seed]

\* GenerateRandomHexKey: 16 random bytes, hex encoded.
GenerateRandomHexKey(seed) == HexEncode(RandBytes(KeySize, seed))

\* A cell of a stored blob: a byte in the clear, or the AEAD output (the
\* ciphertext and its tag), which opens only under the key and the nonce that
\* sealed it.
PlainCell(b) == [t |-> "plain", b |-> b, key |-> <<>>, nonce |-> <<>>, text |-> <<>>]

SealedCell(keyBytes, nonce, object) ==
  [t |-> "sealed", b |-> 0, key |-> keyBytes, nonce |-> nonce, text |-> object]

\* Mutant of Seal: the key bytes are written in the clear after the nonce.
SealWithKeyInClear(keyBytes, nonce, object) ==
  [i \in 1..Len(nonce) |-> PlainCell(nonce[i])]
    \o [i \in 1..Len(keyBytes) |-> PlainCell(keyBytes[i])]
    \o <<SealedCell(keyBytes, nonce, object)>>

\* aesGCM.Seal(nonce, nonce, object, nil): the nonce, then ciphertext and tag.
Seal(keyBytes, nonce, object) ==
  [i \in 1..Len(nonce) |-> PlainCell(nonce[i])] \o <<SealedCell(keyBytes, nonce, object)>>

CodecResult(err, out) == [err |-> err, out |-> out]

\* Mutant of Encode: the nonce does not come from a new draw.
EncodeWithFixedNonce(object, key, nonceSeed) ==
  LET dec == HexDecode(key) IN
  IF dec.err # "" THEN CodecResult(dec.err, <<>>)
  ELSE IF ~ValidKeyLen(dec.bytes)
       THEN CodecResult("could not create cipher block", <<>>)
       ELSE CodecResult("", Seal(dec.bytes, RandBytes(NonceSize, 0), object))

\* Encode(object, key), with the nonce read from rand.Reader.
Encode(object, key, nonceSeed) ==
  LET dec == HexDecode(key) IN
  IF dec.err # "" THEN CodecResult(dec.err, <<>>)
  ELSE IF ~ValidKeyLen(dec.bytes)
       THEN CodecResult("could not create cipher block", <<>>)
       ELSE CodecResult("", Seal(dec.bytes, RandBytes(NonceSize, nonceSeed), object))

\* Mutant of Open: the tag is not verified, so any key opens the blob.
OpenUnauthenticated(keyBytes, nonce, actual) ==
  IF Len(actual) = 1 /\ actual[1].t = "sealed"
  THEN CodecResult("", actual[1].text)
  ELSE CodecResult("could not decrypt", <<>>)

\* aesGCM.Open(nil, nonce, actualCiphertext, nil): the plaintext when the tag
\* verifies under this key and nonce, else an error.
Open(keyBytes, nonce, actual) ==
  IF /\ Len(actual) = 1
     /\ actual[1].t = "sealed"
     /\ actual[1].key = keyBytes
     /\ actual[1].nonce = nonce
  THEN CodecResult("", actual[1].text)
  ELSE CodecResult("could not decrypt", <<>>)

NonceOf(cipherObject) ==
  [i \in 1..NonceSize |-> IF cipherObject[i].t = "plain" THEN cipherObject[i].b ELSE -1]

\* Mutant of Decode: a blob of exactly one nonce is taken for too short.
DecodeNonceOnlyTooShort(cipherObject, key) ==
  LET dec == HexDecode(key) IN
  IF dec.err # "" THEN CodecResult("invalid hex key", <<>>)
  ELSE IF ~ValidKeyLen(dec.bytes)
       THEN CodecResult("could not create cipher block", <<>>)
       ELSE IF Len(cipherObject) <= NonceSize
            THEN CodecResult("ciphertext too short", <<>>)
            ELSE Open(dec.bytes, NonceOf(cipherObject),
                      SubSeq(cipherObject, NonceSize + 1, Len(cipherObject)))

\* Decode(cipherObject, key).
Decode(cipherObject, key) ==
  LET dec == HexDecode(key) IN
  IF dec.err # "" THEN CodecResult("invalid hex key", <<>>)
  ELSE IF ~ValidKeyLen(dec.bytes)
       THEN CodecResult("could not create cipher block", <<>>)
       ELSE IF Len(cipherObject) < NonceSize
            THEN CodecResult("ciphertext too short", <<>>)
            ELSE Open(dec.bytes, NonceOf(cipherObject),
                      SubSeq(cipherObject, NonceSize + 1, Len(cipherObject)))


\* ---------------------------------------------------------- secret record

\* dto.Secret: the message and the one-time flag.
Secret(message, oneTime) == [Message |-> message, OneTime |-> oneTime]

\* Mutant of EscapeChar: the backslash is written as it is.
EscapeCharNoBackslash(c) ==
  CASE c = "\"" -> <<"\\", "\"">>
    [] c = "<"  -> <<"\\", "u", "0", "0", "3", "c">>
    [] OTHER    -> <<c>>

\* encoding/json's string encoder, one character.
EscapeChar(c) ==
  CASE c = "\"" -> <<"\\", "\"">>
    [] c = "\\" -> <<"\\", "\\">>
    [] c = "<"  -> <<"\\", "u", "0", "0", "3", "c">>
    [] OTHER    -> <<c>>

RECURSIVE EscapeString(_)
EscapeString(s) ==
  IF s = <<>> THEN <<>> ELSE EscapeChar(Head(s)) \o EscapeString(Tail(s))

\* The character of a \uXXXX escape.
CharOfCode(code) ==
  CASE code = 60 -> "<"
    [] code = 34 -> "\""
    [] code = 92 -> "\\"
    [] code = 97 -> "a"
    [] OTHER     -> "?"

\* encoding/json's string decoder: [err, out].
RECURSIVE UnescapeString(_)
UnescapeString(w) ==
  IF w = <<>> THEN [err |-> "", out |-> <<>>]
  ELSE IF Head(w) = "\"" THEN [err |-> "invalid character after string", out |-> <<>>]
  ELSE IF Head(w) # "\\"
       THEN LET rest == UnescapeString(Tail(w)) IN
            [err |-> rest.err, out |-> IF rest.err = "" THEN <<Head(w)>> \o rest.out ELSE <<>>]
  ELSE IF Len(w) < 2 THEN [err |-> "unexpected end of JSON input", out |-> <<>>]
  ELSE IF w[2] \in {"\"", "\\"}
       THEN LET rest == UnescapeString(SubSeq(w, 3, Len(w))) IN
            [err |-> rest.err, out |-> IF rest.err = "" THEN <<w[2]>> \o rest.out ELSE <<>>]
  ELSE IF w[2] = "u" /\ Len(w) >= 6 /\ \A i \in 3..6 : IsHexDigit(w[i])
       THEN LET rest == UnescapeString(SubSeq(w, 7, Len(w)))
                code == 4096 * HexVal(w[3]) + 256 * HexVal(w[4])
                        + 16 * HexVal(w[5]) + HexVal(w[6])
            IN [err |-> rest.err,
                out |-> IF rest.err = "" THEN <<CharOfCode(code)>> \o rest.out ELSE <<>>]
  ELSE [err |-> "invalid character in string escape code", out |-> <<>>]

\* json.Marshal(secret): the members of the JSON object in their wire form.
Marshal(secret) ==
  [message |-> EscapeString(secret.Message),
   one_time |-> IF secret.OneTime THEN "true" ELSE "false"]

\* Mutant of Unmarshal: any value of the flag reads as true.
UnmarshalAlwaysOneTime(object) ==
  LET msg == UnescapeString(object.message) IN
  IF msg.err # "" \/ object.one_time \notin {"true", "false"}
  THEN [err |-> "invalid JSON", dest |-> Secret(<<>>, FALSE)]
  ELSE [err |-> "", dest |-> Secret(msg.out, TRUE)]

\* json.Unmarshal(object, &dest): [err, dest].
Unmarshal(object) ==
  LET msg == UnescapeString(object.message) IN
  IF msg.err # "" \/ object.one_time \notin {"true", "false"}
  THEN [err |-> "invalid JSON", dest |-> Secret(<<>>, FALSE)]
  ELSE [err |-> "", dest |-> Secret(msg.out, object.one_time = "true")]

\* ----------------------------------------------------------------- store

\* Mutant of UuidNames: every draw returns the same identifier.
UuidNamesRepeating == <<"id-1", "id-1", "id-1", "id-1">>

\* The identifiers uuid.NewV4 returns, in the order of the draws, and one that
\* no Create ever returned.
UuidNames == <<"id-1", "id-2", "id-3", "id-4">>

UnknownAlias == "id-0"

Aliases == {UuidNames[n] : n \in 1..MaxSecrets} \cup {UnknownAlias}

NoEntry == [present |-> FALSE, val |-> <<>>, left |-> 0]

\* Mutant of StoreSet: the time to live is dropped.
StoreSetNoTTL(st, key, value, ttl) ==
  [st EXCEPT ![key] = [present |-> TRUE, val |-> value, left |-> 0]]

\* Mutant of StoreSet: the value is written under one fixed key.
StoreSetUnderOneKey(st, key, value, ttl) ==
  [st EXCEPT !["id-1"] = [present |-> TRUE, val |-> value,
                          left |-> IF ttl > 0 THEN ttl ELSE 0]]

\* Store.Set: SET key value, with an expiry only when ttl is positive.
StoreSet(st, key, value, ttl) ==
  [st EXCEPT ![key] = [present |-> TRUE, val |-> value,
                       left |-> IF ttl > 0 THEN ttl ELSE 0]]

\* Mutant of StoreFetch: a missing entry reads as an empty value.
StoreFetchEmptyForMissing(st, key, backendErr) ==
  IF backendErr # "" THEN [err |-> backendErr, found |-> FALSE, val |-> <<>>]
  ELSE IF key \in DOMAIN st /\ st[key].present
       THEN [err |-> "", found |-> TRUE, val |-> st[key].val]
       ELSE [err |-> "", found |-> TRUE, val |-> <<>>]

\* Mutant of StoreFetch: an error of the backend reads as a missing entry.
StoreFetchErrorAsMissing(st, key, backendErr) ==
  IF backendErr = "" /\ key \in DOMAIN st /\ st[key].present
  THEN [err |-> "", found |-> TRUE, val |-> st[key].val]
  ELSE [err |-> "", found |-> FALSE, val |-> <<>>]

\* Store.Fetch: (nil, nil) on redis.Nil, (nil, err) on another error, else the
\* value.
StoreFetch(st, key, backendErr) ==
  IF backendErr # "" THEN [err |-> backendErr, found |-> FALSE, val |-> <<>>]
  ELSE IF key \in DOMAIN st /\ st[key].present
       THEN [err |-> "", found |-> TRUE, val |-> st[key].val]
       ELSE [err |-> "", found |-> FALSE, val |-> <<>>]

\* Mutant of StoreDelete: nothing is removed.
StoreDeleteNothing(st, key) == st

\* Mutant of StoreDelete: the key is set to an empty value instead of removed.
StoreDeleteLeavingEmpty(st, key) ==
  IF key \in DOMAIN st
  THEN [st EXCEPT ![key] = [present |-> TRUE, val |-> <<>>, left |-> 0]]
  ELSE st

\* Store.Delete: DEL key, which removes the entry if there is one.
StoreDelete(st, key) ==
  IF key \in DOMAIN st THEN [st EXCEPT ![key] = NoEntry] ELSE st

\* Mutant of StoreDeleteErr: removing nothing is reported as an error.
StoreDeleteErrWhenAbsent(st, key, backendErr) ==
  IF backendErr # "" THEN backendErr
  ELSE IF key \in DOMAIN st /\ st[key].present THEN "" ELSE "redis: nil"

\* The error Store.Delete returns: that of the DEL command. Redis answers DEL
\* with the number of keys it removed, and Err() does not look at the number.
StoreDeleteErr(st, key, backendErr) == backendErr

\* One hour passes in Redis: an entry whose time to live runs out is gone.
StoreExpire(st) ==
  [a \in DOMAIN st |->
     IF st[a].present /\ st[a].left > 0
     THEN IF st[a].left - Hour <= 0 THEN NoEntry
          ELSE [st[a] EXCEPT !.left = @ - Hour]
     ELSE st[a]]

\* ----------------------------------------------------------------- state

VARIABLES
  store,    \* Redis: identifier -> [present, val, left]
  draws,    \* how many times Create has drawn a uuid, a key and a nonce
  loc,      \* per handler: where its Retrieve stands, and its local variables
  out,      \* the response the latest step wrote, with its request, if any
  handle    \* history: per identifier, what Create was given and returned

vars == <<store, draws, loc, out, handle>>

\* ------------------------------------------------------------- responses

NoFields == <<>>

\* response.Response and the handlers' Response types, with the HTTP status.
Resp(code, status, error, alias, key, message, fields) ==
  [code |-> code, status |-> status, error |-> error, alias |-> alias,
   key |-> key, message |-> message, fields |-> fields]

\* resp.Error(msg) under render.Status(code).
RespError(code, msg) == Resp(code, "ERROR", msg, "", <<>>, <<>>, NoFields)

\* resp.ValidationErrorResponse(errorMsgs) under 400.
RespValidation(fields) == Resp(400, "error", "validation", "", <<>>, <<>>, fields)

\* save.Response{resp.OK(), alias, key}.
RespCreated(alias, key) == Resp(200, "OK", "", alias, key, <<>>, NoFields)

\* fetch.Response{resp.OK(), message}.
RespMessage(message) == Resp(200, "OK", "", "", <<>>, message, NoFields)

NotFound == RespError(404, "Secret not found")

Req(alias, key, message, expiration, oneTime) ==
  [alias |-> alias, key |-> key, message |-> message,
   expiration |-> expiration, oneTime |-> oneTime]

NoReq == Req("", <<>>, <<>>, 0, FALSE)

Out(op, req, resp) == [op |-> op, req |-> req, resp |-> resp]

NoOut == Out("none", NoReq, RespError(0, ""))

Idle == [pc |-> "idle", alias |-> "", key |-> <<>>, message |-> <<>>]

NoHandle ==
  [issued |-> FALSE, key |-> <<>>, message |-> <<>>, oneTime |-> FALSE,
   expiration |-> 0, ttl |-> 0, age |-> 0, reads |-> 0]

\* ----------------------------------------------------------------- inputs

\* The messages a create request may carry: the empty one, which fails
\* validation, a letter, and the three characters that encoding/json writes as
\* an escape (the backslash, the quote and "<").
Messages == {<<>>, <<"a">>, <<"\\", "\"", "<">>}

\* The expiration, in hours, a create request may carry.
Expirations == {0, 2}

\* No error from the backend.
NoErr == ""

\* A well-formed key that no Create returned.
ZeroKey == HexEncode(RandBytes(KeySize, 0))

IssuedKeys == {handle[a].key : a \in {b \in DOMAIN handle : handle[b].issued}}

\* The path parameters a retrieve request may carry: an identifier and a
\* well-formed key, or one of them missing ("", <<>>).
RetrieveRequests ==
  {<<a, k>> : a \in Aliases, k \in IssuedKeys \cup {ZeroKey}}
    \cup {<<"", ZeroKey>>, <<UnknownAlias, <<>>>>}

\* ------------------------------------------------------------------- Init

Init ==
  /\ store = [a \in Aliases |-> NoEntry]
  /\ draws = 0
  /\ loc = [p \in Procs |-> Idle]
  /\ out = NoOut
  /\ handle = [a \in Aliases |-> NoHandle]

\* ----------------------------------------------------------------- Create

\* Mutant of ValidationErrors: no field is required.
ValidationErrorsNone(req) == NoFields

\* validate.Struct(req): Message is required.
ValidationErrors(req) ==
  IF req.message = <<>>
  THEN <<[field |-> "message", error |-> "This field is required"]>>
  ELSE NoFields

\* A signed integer of DurBits bits.
WrapDuration(x) ==
  LET half == 2 ^ (DurBits - 1) IN ((x + half) % (2 * half)) - half

\* time.Duration(req.Expiration) * time.Hour.
DurationOf(expiration) == WrapDuration(expiration * Hour)

\* Mutant of Create: the error of the store's Set is not looked at.
CreateIgnoringSetError(req, setErr) ==
  LET fields == ValidationErrors(req)
      seen == Req("", <<>>, req.message, 0, FALSE)
  IN
  IF fields # NoFields
  THEN /\ out' = Out("create", seen, RespValidation(fields))
       /\ UNCHANGED <<store, draws, loc, handle>>
  ELSE /\ draws < Len(UuidNames)
       /\ UuidNames[draws + 1] \in DOMAIN store
       /\ draws' = draws + 1
       /\ LET alias == UuidNames[draws + 1]
              key == GenerateRandomHexKey(draws + 1)
              enc == Encode(Marshal(Secret(req.message, req.oneTime)), key,
                            KeySize + draws + 1)
          IN /\ out' = Out("create", seen, RespCreated(alias, key))
             /\ UNCHANGED <<store, handle>>
       /\ UNCHANGED loc

\* The save handler, from the decoded request to the response. setErr is what
\* the store's Set returns. A secret is created while the model has a name for
\* the identifier of this draw.
Create(req, setErr) ==
  LET fields == ValidationErrors(req)
      seen == Req("", <<>>, req.message, 0, FALSE)
  IN
  IF fields # NoFields
  THEN /\ out' = Out("create", seen, RespValidation(fields))
       /\ UNCHANGED <<store, draws, loc, handle>>
  ELSE /\ draws < Len(UuidNames)
       /\ UuidNames[draws + 1] \in DOMAIN store
       /\ draws' = draws + 1
       /\ LET alias == UuidNames[draws + 1]
              key == GenerateRandomHexKey(draws + 1)
              secret == Secret(req.message, req.oneTime)
              object == Marshal(secret)
              enc == Encode(object, key, KeySize + draws + 1)
              ttl == DurationOf(req.expiration)
          IN IF enc.err # ""
             THEN /\ out' = Out("create", seen, RespError(500, "Failed to encode secret"))
                  /\ UNCHANGED <<store, handle>>
             ELSE IF setErr # NoErr
             THEN /\ out' = Out("create", seen, RespError(500, "Url already exists"))
                  /\ UNCHANGED <<store, handle>>
             ELSE /\ store' = StoreSet(store, alias, enc.out, ttl)
                  /\ out' = Out("create", seen, RespCreated(alias, key))
                  /\ handle' = [handle EXCEPT ![alias] =
                                  [issued |-> TRUE, key |-> key, message |-> req.message,
                                   oneTime |-> req.oneTime, expiration |-> req.expiration,
                                   ttl |-> ttl, age |-> 0, reads |-> 0]]
       /\ UNCHANGED loc

\* --------------------------------------------------------------- Retrieve

CountRead(h, alias) ==
  IF alias \in DOMAIN h /\ h[alias].issued /\ h[alias].reads < 2
  THEN [h EXCEPT ![alias].reads = @ + 1]
  ELSE h

\* The handlers run the same code: a request is served by the first of them
\* that is free.
FirstIdle == CHOOSE p \in Procs : loc[p].pc = "idle" /\ \A q \in Procs : loc[q].pc = "idle" => ProcOrder[p] <= ProcOrder[q]

\* The fetch handler up to and including its call of the store's Fetch, and
\* what it does with the result before it calls Delete: the decoding, the
\* deserializing, and the response when no Delete follows.
RetrieveFetch(p, alias, key, fetchErr) ==
  /\ loc[p].pc = "idle"
  /\ p = FirstIdle
  /\ LET req == Req(alias, key, <<>>, 0, FALSE)
         reply(r) == /\ out' = Out("retrieve", req, r)
                     /\ loc' = loc
     IN
     IF alias = "" THEN reply(RespError(400, "Alias parameter is missing")) /\ handle' = handle
     ELSE IF key = <<>> THEN reply(RespError(400, "Key parameter is missing")) /\ handle' = handle
     ELSE LET f == StoreFetch(store, alias, fetchErr) IN
          IF f.err # "" THEN reply(RespError(500, f.err)) /\ handle' = handle
          ELSE IF ~f.found THEN reply(NotFound) /\ handle' = handle
          ELSE LET dec == Decode(f.val, key) IN
               IF dec.err # ""
               THEN reply(RespError(500, "Failed to decode secret")) /\ handle' = handle
               ELSE LET un == Unmarshal(dec.out) IN
                    IF un.err # ""
                    THEN reply(RespError(500, "Secret unmarshalling failed")) /\ handle' = handle
                    ELSE IF un.dest.OneTime
                    THEN /\ loc' = [loc EXCEPT ![p] =
                                      [pc |-> "delete", alias |-> alias, key |-> key,
                                       message |-> un.dest.Message]]
                         /\ out' = NoOut
                         /\ handle' = handle
                    ELSE /\ reply(RespMessage(un.dest.Message))
                         /\ handle' = CountRead(handle, alias)
  /\ UNCHANGED <<store, draws>>

\* Mutant of RetrieveDelete: the error of Delete is not looked at.
RetrieveDeleteIgnoringError(p, delErr) ==
  /\ loc[p].pc = "delete"
  /\ store' = IF delErr # NoErr THEN store ELSE StoreDelete(store, loc[p].alias)
  /\ out' = Out("retrieve", Req(loc[p].alias, loc[p].key, <<>>, 0, FALSE),
                RespMessage(loc[p].message))
  /\ handle' = CountRead(handle, loc[p].alias)
  /\ loc' = [loc EXCEPT ![p] = Idle]
  /\ UNCHANGED draws

\* The rest of the fetch handler for a one-time secret: the call of the
\* store's Delete and the response. delErr is what Delete returns.
RetrieveDelete(p, delErr) ==
  /\ loc[p].pc = "delete"
  /\ LET req == Req(loc[p].alias, loc[p].key, <<>>, 0, FALSE) IN
     IF StoreDeleteErr(store, loc[p].alias, delErr) # NoErr
     THEN /\ out' = Out("retrieve", req, RespError(500, "Failed to delete secret"))
          /\ UNCHANGED <<store, handle>>
     ELSE /\ store' = StoreDelete(store, loc[p].alias)
          /\ out' = Out("retrieve", req, RespMessage(loc[p].message))
          /\ handle' = CountRead(handle, loc[p].alias)
  /\ loc' = [loc EXCEPT ![p] = Idle]
  /\ UNCHANGED draws

\* ------------------------------------------------------------------- time

\* One hour passes: Redis expires what is due, and every secret ages (the age
\* stops counting once the time to live has elapsed).
Tick ==
  /\ store' = StoreExpire(store)
  /\ handle' = [a \in DOMAIN handle |->
                  IF handle[a].issued /\ handle[a].ttl > 0 /\ handle[a].age < handle[a].ttl
                  THEN [handle[a] EXCEPT !.age = @ + Hour]
                  ELSE handle[a]]
  /\ out' = NoOut
  /\ UNCHANGED <<draws, loc>>

\* --------------------------------------------------------- specifications

CreateRequests ==
  {Req("", <<>>, m, e, o) : m \in Messages, e \in Expirations, o \in BOOLEAN}

\* The backend answers every call.
Next ==
  \/ \E req \in CreateRequests : Create(req, NoErr)
  \/ \E p \in Procs, r \in RetrieveRequests : RetrieveFetch(p, r[1], r[2], NoErr)
  \/ \E p \in Procs : RetrieveDelete(p, NoErr)
  \/ Tick

Spec == Init /\ [][Next]_vars

\* What a failing backend call returns.
BackendErrors == {"internal storage error"}

StoreResults == {NoErr} \cup BackendErrors

\* The backend may fail any call.
NextFault ==
  \/ \E req \in CreateRequests, e \in StoreResults : Create(req, e)
  \/ \E p \in Procs, r \in RetrieveRequests, e \in StoreResults :
       RetrieveFetch(p, r[1], r[2], e)
  \/ \E p \in Procs, e \in StoreResults : RetrieveDelete(p, e)
  \/ Tick

SpecFault == Init /\ [][NextFault]_vars

\* The fetch handler over a Redis that holds values this run did not write:
\* the store is shared, so an entry may come from another instance of the
\* service (a sealed record) or from any other client (an empty or a short
\* value).
BlobKey == ZeroKey

OtherKey == GenerateRandomHexKey(1)

BlobKeys == {BlobKey, OtherKey}

SealedBlob(oneTime) ==
  Encode(Marshal(Secret(<<"a">>, oneTime)), BlobKey, KeySize).out

\* A sealed value that is no record: its string ends inside an escape.
MalformedBlob ==
  Encode([message |-> <<"\\">>, one_time |-> "true"], BlobKey, KeySize).out

ForeignBlobs ==
  { <<>>,
    [i \in 1..(NonceSize - 1) |-> PlainCell(0)],
    SealedBlob(TRUE),
    SealedBlob(FALSE),
    MalformedBlob }

\* The path parameters of a retrieve request: an identifier and one of the two
\* keys, or one of them missing.
BlobRequests ==
  {<<a, k>> : a \in Aliases, k \in BlobKeys}
    \cup {<<"", BlobKey>>, <<UnknownAlias, <<>>>>}

ForeignEntries ==
  {NoEntry} \cup {[present |-> TRUE, val |-> b, left |-> 0] : b \in ForeignBlobs}

InitBlob ==
  /\ store \in [Aliases -> ForeignEntries]
  /\ draws = 0
  /\ loc = [p \in Procs |-> Idle]
  /\ out = NoOut
  /\ handle = [a \in Aliases |-> NoHandle]

NextBlob ==
  \/ \E p \in Procs, r \in BlobRequests, e \in StoreResults :
       RetrieveFetch(p, r[1], r[2], e)
  \/ \E p \in Procs, e \in StoreResults : RetrieveDelete(p, e)

SpecBlob == InitBlob /\ [][NextBlob]_vars

\* The save handler from the request body on. A body is the JSON object the
\* caller posted: a function from member names to values.

\* render.DecodeJSON(r.Body, &req): a member is matched by the json tag of a
\* field of Request, a member that matches none is skipped, and a field without
\* a member keeps its zero value.
DecodeRequest(body) ==
  Req("", <<>>,
      IF "message" \in DOMAIN body THEN body["message"] ELSE <<>>,
      IF "expiration" \in DOMAIN body THEN body["expiration"] ELSE 0,
      IF "one_time" \in DOMAIN body THEN body["one_time"] ELSE FALSE)

\* The save handler, from the body to the response.
Save(body, setErr) == Create(DecodeRequest(body), setErr)

\* The request body the README documents, its expiration scaled to the model's
\* hours.
ReadmeBody == ("message" :> <<"a">>) @@ ("expiration" :> 2) @@ ("one-time" :> TRUE)

\* The same request with the flag under the name of the json tag.
TaggedBody == ("message" :> <<"a">>) @@ ("expiration" :> 2) @@ ("one_time" :> TRUE)

\* The largest value of the request's integer type, the largest number of
\* hours whose duration is representable, and the expirations a body may carry:
\* a negative one, none, a small one, and those around the representable range.
MaxInt == 2 ^ (DurBits - 1) - 1

MaxHours == MaxInt \div Hour

WideExpirations == {-1, 0, 2, MaxHours, MaxHours + 1, MaxInt}

Bodies ==
  {ReadmeBody, TaggedBody, "expiration" :> 2}
    \cup {("message" :> <<"a">>) @@ ("expiration" :> e) : e \in WideExpirations}

InitInput == Init

NextInput ==
  \/ \E body \in Bodies : Save(body, NoErr)
  \/ \E p \in Procs, a \in {b \in DOMAIN handle : handle[b].issued} :
       RetrieveFetch(p, a, handle[a].key, NoErr)
  \/ \E p \in Procs : RetrieveDelete(p, NoErr)
  \/ Tick

SpecInput == InitInput /\ [][NextInput]_vars

\* The lifetime of several secrets side by side: one more secret than Spec
\* creates, and one message.
LifeAliases == {UuidNames[n] : n \in 1..(MaxSecrets + 1)} \cup {UnknownAlias}

LifeRequests == {Req("", <<>>, <<"a">>, e, o) : e \in Expirations, o \in BOOLEAN}

InitLife ==
  /\ store = [a \in LifeAliases |-> NoEntry]
  /\ draws = 0
  /\ loc = [p \in Procs |-> Idle]
  /\ out = NoOut
  /\ handle = [a \in LifeAliases |-> NoHandle]

NextLife ==
  \/ \E req \in LifeRequests : Create(req, NoErr)
  \/ \E p \in Procs, a \in {b \in DOMAIN handle : handle[b].issued} :
       RetrieveFetch(p, a, handle[a].key, NoErr)
  \/ \E p \in Procs : RetrieveDelete(p, NoErr)
  \/ Tick

SpecLife == InitLife /\ [][NextLife]_vars

\* The handlers with every store call in two steps, the call and its return,
\* so that a call the backend never answers is a state. A call returns when
\* the backend answers or when the client gives up: redis.NewClient is given
\* only Addr, so the client's default socket timeouts apply.

\* The context the Store hands to every command: context.Background(), kept
\* from New on. The other context there is, is the request's.
StoreContext == "background"

\* ctx.Done(): the request's context is done once the caller is gone;
\* context.Background() is never done.
ContextDone(ctx, gone) == ctx = "request" /\ gone

\* The calls a handler may wait in.
StoreCalls == {"set", "fetch", "delete"}

Waiting(p) == loc[p].pc \in StoreCalls

\* A handler inside a store call, with what it holds and what the call was
\* given.
Pending(call, alias, key, message, arg) ==
  [pc |-> call, alias |-> alias, key |-> key, message |-> message, arg |-> arg,
   ctx |-> StoreContext, gone |-> FALSE]

\* What a call returns when it fails: the backend's error, or the client's
\* timeout, after which the command may or may not have been applied.
CallFailures == BackendErrors \cup {"i/o timeout"}

\* The save handler up to its call of Set.
SaveCall(p, req) ==
  /\ loc[p].pc = "idle"
  /\ p = FirstIdle
  /\ LET fields == ValidationErrors(req)
         seen == Req("", <<>>, req.message, 0, FALSE)
     IN
     IF fields # NoFields
     THEN /\ out' = Out("create", seen, RespValidation(fields))
          /\ UNCHANGED <<draws, loc>>
     ELSE /\ draws < Len(UuidNames)
          /\ UuidNames[draws + 1] \in DOMAIN store
          /\ draws' = draws + 1
          /\ LET alias == UuidNames[draws + 1]
                 key == GenerateRandomHexKey(draws + 1)
                 enc == Encode(Marshal(Secret(req.message, req.oneTime)), key,
                               KeySize + draws + 1)
             IN IF enc.err # ""
                THEN /\ out' = Out("create", seen, RespError(500, "Failed to encode secret"))
                     /\ loc' = loc
                ELSE /\ out' = NoOut
                     /\ loc' = [loc EXCEPT ![p] =
                                  Pending("set", alias, key, req.message,
                                          [blob |-> enc.out,
                                           ttl |-> DurationOf(req.expiration),
                                           oneTime |-> req.oneTime,
                                           expiration |-> req.expiration])]
  /\ UNCHANGED <<store, handle>>

\* Set returns without error: the rest of the save handler.
SetAnswer(p) ==
  /\ loc[p].pc = "set"
  /\ store' = StoreSet(store, loc[p].alias, loc[p].arg.blob, loc[p].arg.ttl)
  /\ out' = Out("create", Req("", <<>>, loc[p].message, 0, FALSE),
                RespCreated(loc[p].alias, loc[p].key))
  /\ handle' = [handle EXCEPT ![loc[p].alias] =
                  [issued |-> TRUE, key |-> loc[p].key, message |-> loc[p].message,
                   oneTime |-> loc[p].arg.oneTime,
                   expiration |-> loc[p].arg.expiration,
                   ttl |-> loc[p].arg.ttl, age |-> 0, reads |-> 0]]
  /\ loc' = [loc EXCEPT ![p] = Idle]
  /\ UNCHANGED draws

\* The fetch handler up to its call of Fetch.
FetchCall(p, alias, key) ==
  /\ loc[p].pc = "idle"
  /\ p = FirstIdle
  /\ LET req == Req(alias, key, <<>>, 0, FALSE) IN
     IF alias = ""
     THEN out' = Out("retrieve", req, RespError(400, "Alias parameter is missing")) /\ loc' = loc
     ELSE IF key = <<>>
     THEN out' = Out("retrieve", req, RespError(400, "Key parameter is missing")) /\ loc' = loc
     ELSE /\ out' = NoOut
          /\ loc' = [loc EXCEPT ![p] = Pending("fetch", alias, key, <<>>, <<>>)]
  /\ UNCHANGED <<store, draws, handle>>

\* Fetch returns without error: the fetch handler up to its call of Delete, or
\* to its response when no Delete follows.
FetchAnswer(p) ==
  /\ loc[p].pc = "fetch"
  /\ LET req == Req(loc[p].alias, loc[p].key, <<>>, 0, FALSE)
         f == StoreFetch(store, loc[p].alias, NoErr)
         reply(r) == /\ out' = Out("retrieve", req, r)
                     /\ loc' = [loc EXCEPT ![p] = Idle]
     IN
     IF ~f.found THEN reply(NotFound) /\ handle' = handle
     ELSE LET dec == Decode(f.val, loc[p].key) IN
          IF dec.err # ""
          THEN reply(RespError(500, "Failed to decode secret")) /\ handle' = handle
          ELSE LET un == Unmarshal(dec.out) IN
               IF un.err # ""
               THEN reply(RespError(500, "Secret unmarshalling failed")) /\ handle' = handle
               ELSE IF un.dest.OneTime
               THEN /\ loc' = [loc EXCEPT ![p].pc = "delete",
                                          ![p].message = un.dest.Message]
                    /\ out' = NoOut
                    /\ handle' = handle
               ELSE /\ reply(RespMessage(un.dest.Message))
                    /\ handle' = CountRead(handle, loc[p].alias)
  /\ UNCHANGED <<store, draws>>

\* Delete returns without error: the rest of the fetch handler.
DeleteAnswer(p) ==
  /\ loc[p].pc = "delete"
  /\ store' = StoreDelete(store, loc[p].alias)
  /\ out' = Out("retrieve", Req(loc[p].alias, loc[p].key, <<>>, 0, FALSE),
                RespMessage(loc[p].message))
  /\ handle' = CountRead(handle, loc[p].alias)
  /\ loc' = [loc EXCEPT ![p] = Idle]
  /\ UNCHANGED draws

\* The pending call returns an error, and the handler answers with it. After a
\* timeout the command may still have been applied.
CallFails(p, err, applied) ==
  /\ Waiting(p)
  /\ applied => err = "i/o timeout"
  /\ store' = IF ~applied THEN store
              ELSE CASE loc[p].pc = "set" ->
                          StoreSet(store, loc[p].alias, loc[p].arg.blob, loc[p].arg.ttl)
                     [] loc[p].pc = "delete" -> StoreDelete(store, loc[p].alias)
                     [] OTHER -> store
  /\ out' = CASE loc[p].pc = "set" ->
                   Out("create", Req("", <<>>, loc[p].message, 0, FALSE),
                       RespError(500, "Url already exists"))
              [] loc[p].pc = "fetch" ->
                   Out("retrieve", Req(loc[p].alias, loc[p].key, <<>>, 0, FALSE),
                       RespError(500, err))
              [] OTHER ->
                   Out("retrieve", Req(loc[p].alias, loc[p].key, <<>>, 0, FALSE),
                       RespError(500, "Failed to delete secret"))
  /\ loc' = [loc EXCEPT ![p] = Idle]
  /\ UNCHANGED <<draws, handle>>

\* The caller of a request in flight goes away: the request's context is
\* cancelled. No handler reads it.
CallerCancel(p) ==
  /\ Waiting(p)
  /\ ~loc[p].gone
  /\ loc' = [loc EXCEPT ![p].gone = TRUE]
  /\ out' = NoOut
  /\ UNCHANGED <<store, draws, handle>>

WaitRequests == {Req("", <<>>, m, 0, o) : m \in {<<>>, <<"a">>}, o \in BOOLEAN}

InitWait == Init

NextWait ==
  \/ \E p \in Procs, req \in WaitRequests : SaveCall(p, req)
  \/ \E p \in Procs : SetAnswer(p)
  \/ \E p \in Procs, r \in RetrieveRequests : FetchCall(p, r[1], r[2])
  \/ \E p \in Procs : FetchAnswer(p)
  \/ \E p \in Procs : DeleteAnswer(p)
  \/ \E p \in Procs, err \in CallFailures, applied \in BOOLEAN : CallFails(p, err, applied)
  \/ \E p \in Procs : CallerCancel(p)

\* The backend need not answer; a call that is not answered ends by the
\* client's timeout.
SpecWait ==
  /\ InitWait
  /\ [][NextWait]_vars
  /\ \A p \in Procs :
       WF_vars(\E err \in CallFailures, applied \in BOOLEAN : CallFails(p, err, applied))

\* The codec by itself: a caller encrypts objects under keys of its choice and
\* decrypts blobs. Here handle is the sequence of the successful Encode calls,
\* each with its key and the blob it returned, and out is the latest call with
\* its result.
CodecCalls == MaxSecrets + 1

\* Keys of valid format, the empty key, a key of one byte and one that is no
\* hex string.
ValidKeys == {ZeroKey, GenerateRandomHexKey(1)}

CodecKeys == ValidKeys \cup {<<>>, <<"0", "0">>, <<"z", "z">>}

CodecObjects == {Marshal(Secret(<<"a">>, TRUE)), Marshal(Secret(<<"a">>, FALSE))}

\* The blobs a caller may hand to Decode: the prefixes of those Encode
\* returned, from the empty one to the whole.
CodecBlobs ==
  {SubSeq(handle[i].blob, 1, n) :
     i \in 1..Len(handle), n \in {0, NonceSize - 1, NonceSize, NonceSize + 1}}

CodecOut(op, key, input, result) ==
  [op |-> op, req |-> [key |-> key, input |-> input], resp |-> result]

InitCodec ==
  /\ store = [a \in Aliases |-> NoEntry]
  /\ draws = 0
  /\ loc = [p \in Procs |-> Idle]
  /\ out = NoOut
  /\ handle = <<>>

\* One call of Encode. The nonce is drawn once the key has made a cipher.
Encrypt(object, key) ==
  /\ Len(handle) < CodecCalls
  /\ LET r == Encode(object, key, KeySize + draws + 1) IN
     /\ out' = CodecOut("encode", key, object, r)
     /\ draws' = IF r.err = "" THEN draws + 1 ELSE draws
     /\ handle' = IF r.err = "" THEN Append(handle, [key |-> key, blob |-> r.out])
                  ELSE handle
  /\ UNCHANGED <<store, loc>>

\* One call of Decode.
Decrypt(blob, key) ==
  /\ out' = CodecOut("decode", key, blob, Decode(blob, key))
  /\ UNCHANGED <<store, draws, loc, handle>>

NextCodec ==
  \/ \E object \in CodecObjects, key \in CodecKeys : Encrypt(object, key)
  \/ \E blob \in CodecBlobs, key \in CodecKeys : Decrypt(blob, key)

SpecCodec == InitCodec /\ [][NextCodec]_vars

\* ----------------------------------------------------------------- claims

Issued == {a \in DOMAIN handle : handle[a].issued}

\* The time to live given to the store's Set was positive and has elapsed.
Elapsed(a) == handle[a].issued /\ handle[a].ttl > 0 /\ handle[a].age >= handle[a].ttl

\* A one-time secret that some Retrieve has already returned.
Consumed(a) == handle[a].issued /\ handle[a].oneTime /\ handle[a].reads >= 1

RetrieveReq(a, k) == Req(a, k, <<>>, 0, FALSE)

\* C1: of the Retrieve calls racing on one one-time secret with the correct
\* identifier and key, exactly one receives the message: no one-time secret is
\* ever returned to two callers.
C1_OneReaderPerOneTimeSecret ==
  \A a \in Issued : handle[a].oneTime => handle[a].reads <= 1

\* C2: Create followed by Retrieve with the returned identifier and key, before
\* expiry and as the first retrieval of a one-time secret, returns exactly the
\* message given to Create: the Fetch step of such a Retrieve answers with the
\* message (or, for a one-time secret, carries it to the Delete step), and the
\* Delete step answers with it.
C2_RoundTrip ==
  [][\A p \in Procs, a \in Issued :
       /\ ( /\ ~Elapsed(a)
            /\ handle[a].oneTime => handle[a].reads = 0
            /\ RetrieveFetch(p, a, handle[a].key, NoErr) )
          => IF handle[a].oneTime
             THEN loc'[p] = [pc |-> "delete", alias |-> a, key |-> handle[a].key,
                             message |-> handle[a].message]
             ELSE out' = Out("retrieve", RetrieveReq(a, handle[a].key),
                             RespMessage(handle[a].message))
       /\ (loc[p].alias = a /\ RetrieveDelete(p, NoErr))
          => out' = Out("retrieve", RetrieveReq(a, handle[a].key),
                        RespMessage(handle[a].message))
    ]_vars

\* C2 witness: a one-time secret whose message needs every escape has just been
\* returned, unchanged, by its first retrieval.
C2_Witness ==
  /\ out.op = "retrieve"
  /\ out.resp.code = 200
  /\ out.req.alias \in Issued
  /\ handle[out.req.alias].oneTime
  /\ handle[out.req.alias].reads = 1
  /\ handle[out.req.alias].message = <<"\\", "\"", "<">>
  /\ out.resp.message = <<"\\", "\"", "<">>

\* C3: once a one-time secret has been returned by a Retrieve, every Retrieve
\* that starts afterwards with the correct identifier and key answers NotFound.
C3_SecondRetrieveNotFound ==
  [][\A p \in Procs, a \in Issued :
       (Consumed(a) /\ RetrieveFetch(p, a, handle[a].key, NoErr))
       => out' = Out("retrieve", RetrieveReq(a, handle[a].key), NotFound)
    ]_vars

\* C3 witness: NotFound has just answered the correct identifier and key of a
\* consumed one-time secret that has not expired.
C3_Witness ==
  /\ out.op = "retrieve"
  /\ out.resp = NotFound
  /\ out.req.alias \in Issued
  /\ out.req.key = handle[out.req.alias].key
  /\ Consumed(out.req.alias)
  /\ ~Elapsed(out.req.alias)

\* C4: a Retrieve with the correct identifier and a well-formed but incorrect
\* key answers NotFound, as for an absent secret.
C4_WrongKeyIsNotFound ==
  ( /\ out.op = "retrieve"
    /\ out.req.alias \in Issued
    /\ out.req.key # <<>>
    /\ out.req.key # handle[out.req.alias].key )
  => out.resp = NotFound

\* C5: when the store's Delete fails for a one-time secret that was fetched,
\* decrypted and deserialized, Retrieve answers DeletionFailed and the response
\* carries no message.
C5_DeleteFailureFailsRetrieve ==
  [][\A p \in Procs, e \in BackendErrors :
       RetrieveDelete(p, e)
       => /\ out'.resp = RespError(500, "Failed to delete secret")
          /\ out'.req = RetrieveReq(loc[p].alias, loc[p].key)
          /\ out'.resp.message = <<>>
    ]_vars

\* C5 witness: DeletionFailed has just answered the correct identifier and key
\* of a one-time secret, which is still in the store.
C5_Witness ==
  /\ out.op = "retrieve"
  /\ out.resp.error = "Failed to delete secret"
  /\ out.resp.message = <<>>
  /\ out.req.alias \in Issued
  /\ out.req.key = handle[out.req.alias].key
  /\ handle[out.req.alias].oneTime
  /\ store[out.req.alias].present

\* C6: a secret that is not one-time is returned by every Retrieve with the
\* correct identifier and key while it has not expired (forever when the time to
\* live is 0), the store is left as it was, and no handler ever stands before a
\* call of Delete for such a secret.
C6_RepeatedlyReadable ==
  /\ [](\A p \in Procs :
          loc[p].pc = "delete" =>
            loc[p].alias \in Issued /\ handle[loc[p].alias].oneTime)
  /\ [][\A p \in Procs, a \in Issued :
          (~handle[a].oneTime /\ ~Elapsed(a) /\ RetrieveFetch(p, a, handle[a].key, NoErr))
          => /\ out' = Out("retrieve", RetrieveReq(a, handle[a].key),
                           RespMessage(handle[a].message))
             /\ loc'[p].pc = "idle"
             /\ store' = store
       ]_vars

\* C6 witness: a secret that is not one-time has just been returned for at
\* least the second time, after time has passed, and is still in the store.
C6_Witness ==
  /\ out.op = "retrieve"
  /\ out.resp.code = 200
  /\ out.req.alias \in Issued
  /\ ~handle[out.req.alias].oneTime
  /\ handle[out.req.alias].reads = 2
  /\ handle[out.req.alias].age > 0
  /\ store[out.req.alias].present

\* C7: once the positive time to live a secret was stored with has elapsed,
\* every Retrieve answers NotFound, with the correct key or another.
C7_ExpiredIsNotFound ==
  [][\A p \in Procs, a \in Issued : \A k \in {handle[a].key, ZeroKey} :
       (Elapsed(a) /\ RetrieveFetch(p, a, k, NoErr))
       => out' = Out("retrieve", RetrieveReq(a, k), NotFound)
    ]_vars

\* C7 witness: NotFound has just answered the correct identifier and key of a
\* secret that was never read and whose time to live has elapsed.
C7_Witness ==
  /\ out.op = "retrieve"
  /\ out.resp = NotFound
  /\ out.req.alias \in Issued
  /\ out.req.key = handle[out.req.alias].key
  /\ Elapsed(out.req.alias)
  /\ handle[out.req.alias].reads = 0

\* The bytes of a stored value that can be read without a key (-1 for the
\* sealed part).
ReadableBytes(val) ==
  [i \in 1..Len(val) |-> IF val[i].t = "plain" THEN val[i].b ELSE -1]

ContainsBytes(hay, needle) ==
  \E off \in 0..(Len(hay) - Len(needle)) :
    \A i \in 1..Len(needle) : hay[off + i] = needle[i]

\* C8: the store holds ciphertext only: every stored value is a nonce followed
\* by one sealed part, and the bytes of no key that Create returned can be read
\* from any stored value.
C8_StoreHoldsCiphertextOnly ==
  \A a \in Aliases :
    store[a].present =>
      LET v == store[a].val IN
      /\ Len(v) = NonceSize + 1
      /\ \A i \in 1..NonceSize : v[i].t = "plain"
      /\ v[Len(v)].t = "sealed"
      /\ \A b \in Issued :
           ~ContainsBytes(ReadableBytes(v), HexDecode(handle[b].key).bytes)

\* C8 witness: a secret is in the store and its key has been returned.
C8_Witness ==
  \E a \in Issued :
    /\ store[a].present
    /\ Len(handle[a].key) = 2 * KeySize
    /\ out = Out("create", Req("", <<>>, handle[a].message, 0, FALSE),
                 RespCreated(a, handle[a].key))

\* C9: Retrieve gives one and the same NotFound response for an identifier that
\* was never created, for a secret whose time to live has elapsed and for a
\* one-time secret that was already consumed.
C9_UniformNotFound ==
  [][\A p \in Procs, a \in Aliases, k \in IssuedKeys \cup {ZeroKey} :
       ( /\ a = UnknownAlias \/ Elapsed(a) \/ Consumed(a)
         /\ RetrieveFetch(p, a, k, NoErr) )
       => out'.resp = NotFound
    ]_vars

\* C9 witness: NotFound has just answered an identifier that was never
\* created, while a consumed one-time secret has also expired.
C9_Witness ==
  /\ out.op = "retrieve"
  /\ out.req.alias = UnknownAlias
  /\ out.req.key # <<>>
  /\ out.resp = NotFound
  /\ \E a \in Issued : Elapsed(a) /\ Consumed(a)

\* C10: Create with an empty message answers InvalidInput, a validation error
\* naming the message field, and leaves the store as it was.
C10_EmptyMessageRejected ==
  [][\A req \in CreateRequests :
       (req.message = <<>> /\ Create(req, NoErr))
       => /\ out'.resp = RespValidation(
                           <<[field |-> "message", error |-> "This field is required"]>>)
          /\ store' = store
          /\ draws' = draws
    ]_vars

\* C10 witness: a validation error naming the message field has just answered
\* a create request with an empty message, with a secret already stored.
C10_Witness ==
  /\ out.op = "create"
  /\ out.req.message = <<>>
  /\ out.resp.code = 400
  /\ Len(out.resp.fields) = 1
  /\ out.resp.fields[1].field = "message"
  /\ \E a \in Issued : store[a].present

\* C11: when the store's Set fails during Create, Create answers an internal
\* error (500) that carries neither an identifier nor a key, and nothing is
\* stored.
C11_SetFailureFailsCreate ==
  [][\A req \in CreateRequests, e \in BackendErrors :
       (ValidationErrors(req) = NoFields /\ Create(req, e))
       => /\ out'.op = "create"
          /\ out'.resp = RespError(500, "Url already exists")
          /\ out'.resp.alias = ""
          /\ out'.resp.key = <<>>
          /\ store' = store
    ]_vars

\* C11 witness: the internal error has just answered a valid create request,
\* after the identifier and the key were drawn, and the store is empty.
C11_Witness ==
  /\ out.op = "create"
  /\ out.req.message # <<>>
  /\ out.resp.code = 500
  /\ out.resp.error = "Url already exists"
  /\ draws = 1
  /\ \A a \in Aliases : ~store[a].present

\* C12: a failure of the store's Fetch is kept apart from the absent case:
\* Retrieve then answers an internal error (500), which is not NotFound and
\* carries no message, and it does not go on to Delete. An absent entry, and
\* only an absent entry, answers NotFound: a stored zero-length value does not.
C12_FetchFailureIsNotAbsence ==
  [][\A p \in Procs, a \in Aliases, k \in BlobKeys :
       /\ \A e \in BackendErrors :
            RetrieveFetch(p, a, k, e)
            => /\ out'.resp.code = 500
               /\ out'.resp # NotFound
               /\ out'.resp.message = <<>>
               /\ loc'[p].pc = "idle"
               /\ store' = store
       /\ RetrieveFetch(p, a, k, NoErr)
          => (out'.resp = NotFound <=> ~store[a].present)
    ]_vars

\* C12 witness: the internal error has just answered a Retrieve whose Fetch
\* failed, for an identifier under which a zero-length value is stored.
C12_Witness ==
  /\ out.op = "retrieve"
  /\ out.resp.code = 500
  /\ out.resp.error \in BackendErrors
  /\ store[out.req.alias].present
  /\ store[out.req.alias].val = <<>>
  /\ \A p \in Procs : loc[p].pc = "idle"

\* The error texts cipher.Decode produces.
CodecErrors ==
  {"invalid hex key", "could not create cipher block", "ciphertext too short",
   "could not decrypt"}

\* C13: no response of Retrieve carries the error text that the store or the
\* codec produced: a storage or cryptographic failure is answered with a
\* generic text.
C13_NoInternalDetail ==
  out.op = "retrieve" => out.resp.error \notin (BackendErrors \cup CodecErrors)

\* C14: every secret created from a request with an expiration of E >= 0 hours
\* was handed to the store's Set with a time to live of exactly E hours: 0 when
\* E is 0, a positive duration when E is positive, for every E of the request's
\* integer type.
C14_TtlIsExpirationHours ==
  \A a \in Issued :
    handle[a].expiration >= 0 =>
      /\ handle[a].ttl = handle[a].expiration * Hour
      /\ handle[a].expiration > 0 => handle[a].ttl > 0

\* C19: a create request with a negative expiration is answered with a
\* validation error (400) and nothing is stored.
C19_NegativeExpirationRejected ==
  [][\A body \in Bodies :
       (DecodeRequest(body).expiration < 0 /\ Save(body, NoErr))
       => /\ out'.resp.code = 400
          /\ store' = store
    ]_vars

\* The secret under a is what creation from this body records.
CreatedFrom(a, body) ==
  /\ handle[a].issued
  /\ handle[a].message = DecodeRequest(body).message
  /\ handle[a].expiration = DecodeRequest(body).expiration
  /\ handle[a].oneTime = DecodeRequest(body).oneTime

\* C20: a secret created with the request body of the README, whose member
\* "one-time" is true, is gone after its first successful retrieval: a Retrieve
\* that starts after it answers NotFound.
C20_ReadmeBodyIsOneTime ==
  [][\A p \in Procs, a \in Issued :
       ( /\ CreatedFrom(a, ReadmeBody)
         /\ handle[a].reads >= 1
         /\ RetrieveFetch(p, a, handle[a].key, NoErr) )
       => out'.resp = NotFound
    ]_vars

EventuallyResponds ==
  \A p \in Procs : (loc[p].pc # "idle") ~> (loc[p].pc = "idle")

\* The context of a pending store call is done once the caller is gone.
CallsCarryCallerContext ==
  \A p \in Procs :
    (Waiting(p) /\ loc[p].gone) => ContextDone(loc[p].ctx, loc[p].gone)

\* C18: no operation blocks for ever: every Create and every Retrieve is
\* answered even when the backend never answers a store call, because the call
\* carries the caller's context and ends when that context is done.
C18_BoundedByCallerContext ==
  EventuallyResponds /\ []CallsCarryCallerContext

\* C21: the store's Delete is idempotent: for an identifier with no entry,
\* never stored, expired or already deleted, Delete returns no error and leaves
\* the store as it was, as a function of every store reached and in every
\* Delete step of a Retrieve.
C21_DeleteIdempotent ==
  /\ [](\A a \in DOMAIN store :
          ~store[a].present =>
            /\ StoreDelete(store, a) = store
            /\ StoreDeleteErr(store, a, NoErr) = NoErr)
  /\ [][\A p \in Procs :
          (loc[p].pc = "delete" /\ ~store[loc[p].alias].present /\ RetrieveDelete(p, NoErr))
          => /\ store' = store
             /\ out'.resp.error # "Failed to delete secret"
       ]_vars

\* C21 witness: Delete has just been applied to the identifier of a one-time
\* secret whose entry an earlier Delete had removed.
C21_Witness ==
  /\ out.op = "retrieve"
  /\ out.resp.code = 200
  /\ out.req.alias \in Issued
  /\ handle[out.req.alias].oneTime
  /\ handle[out.req.alias].reads = 2
  /\ ~Elapsed(out.req.alias)
  /\ ~store[out.req.alias].present

\* C22: two Encode calls with the same key never return the same nonce: the
\* nonces at the head of the blobs returned so far are pairwise distinct.
C22_NoncesPairwiseDistinct ==
  \A i, j \in 1..Len(handle) :
    (i # j /\ handle[i].key = handle[j].key)
    => NonceOf(handle[i].blob) # NonceOf(handle[j].blob)

\* C22 witness: Encode has just returned a second blob for the same object
\* under the same key.
C22_Witness ==
  /\ out.op = "encode"
  /\ out.resp.err = ""
  /\ Len(handle) = 2
  /\ handle[1].key = handle[2].key
  /\ handle[1].blob[NonceSize + 1].text = handle[2].blob[NonceSize + 1].text

\* C23: Decode of a blob shorter than one nonce fails with "ciphertext too
\* short" and returns no plaintext, for every key of valid format; a blob at
\* least one nonce long is never reported as too short, under any key.
C23_TruncatedIffShorterThanNonce ==
  out.op = "decode" =>
    /\ (out.req.key \in ValidKeys /\ Len(out.req.input) < NonceSize)
       => out.resp = CodecResult("ciphertext too short", <<>>)
    /\ Len(out.req.input) >= NonceSize
       => out.resp.err # "ciphertext too short"

\* C23 witness: Decode has just refused, as too short, a blob one byte short of
\* a nonce, under the key that sealed the blob it was cut from.
C23_Witness ==
  /\ out.op = "decode"
  /\ Len(out.req.input) = NonceSize - 1
  /\ out.resp.err = "ciphertext too short"
  /\ out.resp.out = <<>>
  /\ \E i \in 1..Len(handle) : handle[i].key = out.req.key

\* C24: Retrieve goes on to the store's Delete only when Fetch returned a
\* blob that the key opens and that holds a record whose one_time flag is true.
\* In every other outcome (a missing parameter, a store error, no entry, a
\* wrong key, a truncated or malformed value, a record that is not one-time) it
\* answers at once and the store is as it was; the store changes in no step but
\* the Delete of a handler that went on.
C24_DeleteOnlyAfterOneTimeRead ==
  [][/\ \A p \in Procs, r \in BlobRequests, e \in StoreResults :
          RetrieveFetch(p, r[1], r[2], e)
          => /\ store' = store
             /\ loc'[p].pc = "delete"
                <=> ( /\ e = NoErr
                      /\ r[1] \in DOMAIN store
                      /\ store[r[1]].present
                      /\ store[r[1]].val = SealedBlob(TRUE)
                      /\ r[2] = BlobKey )
             /\ loc'[p].pc # "delete" => (loc'[p].pc = "idle" /\ out'.op = "retrieve")
     /\ store' # store => \E p \in Procs : loc[p].pc = "delete" /\ loc'[p].pc = "idle"
    ]_vars

\* C24 witness: a Retrieve with a wrong key has just failed on a one-time
\* secret, which is still in the store, and no handler stands before Delete.
C24_Witness ==
  /\ out.op = "retrieve"
  /\ out.resp.error = "Failed to decode secret"
  /\ out.req.key = OtherKey
  /\ store[out.req.alias].present
  /\ store[out.req.alias].val = SealedBlob(TRUE)
  /\ \A p \in Procs : loc[p].pc = "idle"

\* C25: for a one-time secret deletion precedes delivery: whenever a response
\* carries the message of a one-time secret the store holds no entry under its
\* identifier, and the step that writes such a response is the Delete step of
\* a handler that stood before Delete for that identifier.
C25_DeletionPrecedesDelivery ==
  /\ []( ( /\ out.op = "retrieve"
           /\ out.resp.code = 200
           /\ out.req.alias \in Issued
           /\ handle[out.req.alias].oneTime )
         => ~store[out.req.alias].present )
  /\ [][( /\ out'.op = "retrieve"
          /\ out'.resp.code = 200
          /\ out'.req.alias \in Issued
          /\ handle[out'.req.alias].oneTime )
        => \E p \in Procs :
             /\ loc[p].pc = "delete"
             /\ loc[p].alias = out'.req.alias
             /\ loc'[p].pc = "idle"
       ]_vars

\* C25 witness: the message of a one-time secret has just been delivered for
\* the first time, before its expiry, and its entry is gone.
C25_Witness ==
  /\ out.op = "retrieve"
  /\ out.resp.code = 200
  /\ out.resp.message # <<>>
  /\ out.req.alias \in Issued
  /\ handle[out.req.alias].oneTime
  /\ handle[out.req.alias].reads = 1
  /\ handle[out.req.alias].ttl > 0
  /\ ~Elapsed(out.req.alias)
  /\ ~store[out.req.alias].present

\* ------------------------------------------- failures of the random source

\* What a read of rand.Reader may do: fill the buffer, return an error (the
\* toolchains before Go 1.24), or end the program (from Go 1.24 on, the
\* toolchain the Dockerfile names).
RandResults == {"ok", "error", "abort"}

\* uuid.Nil.String(): the identifier uuid.NewV4 returns next to an error.
NilUuid == "00000000-0000-0000-0000-000000000000"

\* How many times the save handler reaches its draws.
RandDraws == MaxSecrets + 1

RandAliases == {UuidNames[n] : n \in 1..RandDraws} \cup {NilUuid}

RandRequests ==
  {Req("", <<>>, <<>>, 0, FALSE)} \cup {Req("", <<>>, <<"a">>, 0, o) : o \in BOOLEAN}

\* The outcomes of the reads of one request: of the identifier, of the key and
\* of the nonce, which is read only when the key was.
RandOutcomes ==
  {r \in RandResults \X RandResults \X RandResults : r[2] # "ok" => r[3] = "ok"}

\* The program ended before the handler wrote a response.
NoResponse == RespError(0, "")

\* The save handler with the outcomes of its three reads of rand.Reader: in
\* uuid.NewV4, whose error is dropped, in GenerateRandomHexKey, whose error is
\* overwritten by that of json.Marshal, and in Encode for the nonce, which is
\* read only once the key made a cipher block.
CreateWithRand(req, uuidRes, keyRes, nonceRes, setErr) ==
  LET fields == ValidationErrors(req)
      seen == Req("", <<>>, req.message, 0, FALSE)
  IN
  IF fields # NoFields
  THEN /\ out' = Out("create", seen, RespValidation(fields))
       /\ UNCHANGED <<store, draws, loc, handle>>
  ELSE /\ draws < RandDraws
       /\ draws' = draws + 1
       /\ LET alias == IF uuidRes = "ok" THEN UuidNames[draws + 1] ELSE NilUuid
              key == IF keyRes = "ok" THEN GenerateRandomHexKey(draws + 1) ELSE <<>>
              secret == Secret(req.message, req.oneTime)
              object == Marshal(secret)
              enc == Encode(object, key, KeySize + draws + 1)
              nonceRead == enc.err = ""
              ttl == DurationOf(req.expiration)
          IN IF \/ uuidRes = "abort"
                \/ keyRes = "abort"
                \/ nonceRead /\ nonceRes = "abort"
             THEN /\ out' = Out("create", seen, NoResponse)
                  /\ loc' = [p \in Procs |-> Idle]
                  /\ UNCHANGED <<store, handle>>
             ELSE IF enc.err # "" \/ nonceRes = "error"
             THEN /\ out' = Out("create", seen, RespError(500, "Failed to encode secret"))
                  /\ UNCHANGED <<store, loc, handle>>
             ELSE IF setErr # NoErr
             THEN /\ out' = Out("create", seen, RespError(500, "Url already exists"))
                  /\ UNCHANGED <<store, loc, handle>>
             ELSE /\ store' = StoreSet(store, alias, enc.out, ttl)
                  /\ out' = Out("create", seen, RespCreated(alias, key))
                  /\ handle' = [handle EXCEPT ![alias] =
                                  [issued |-> TRUE, key |-> key, message |-> req.message,
                                   oneTime |-> req.oneTime, expiration |-> req.expiration,
                                   ttl |-> ttl, age |-> 0, reads |-> 0]]
                  /\ UNCHANGED loc

InitRand ==
  /\ store = [a \in RandAliases |-> NoEntry]
  /\ draws = 0
  /\ loc = [p \in Procs |-> Idle]
  /\ out = NoOut
  /\ handle = [a \in RandAliases |-> NoHandle]

NextRand ==
  \/ \E req \in RandRequests, r \in RandOutcomes, e \in StoreResults :
       CreateWithRand(req, r[1], r[2], r[3], e)
  \/ \E p \in Procs, a \in {b \in DOMAIN handle : handle[b].issued} :
       RetrieveFetch(p, a, handle[a].key, NoErr)
  \/ \E p \in Procs : RetrieveDelete(p, NoErr)

SpecRand == InitRand /\ [][NextRand]_vars

\* C26: when the draw of the random identifier fails, Create stores nothing
\* and does not answer with success, and the store never holds an entry under
\* the identifier that is returned in place of a random one.
C26_UuidFailureStoresNothing ==
  /\ [](~store[NilUuid].present)
  /\ [][\/ store' = store /\ out'.resp.code # 200
        \/ \A req \in RandRequests, r \in RandOutcomes, e \in StoreResults :
             r[1] # "ok" => ~CreateWithRand(req, r[1], r[2], r[3], e) ]_vars

\* A secret stored under the nil identifier was overwritten by a later Create:
\* the key returned first no longer opens what the store holds.
C26_Overwritten ==
  /\ store[NilUuid].present
  /\ draws = 2
  /\ out.op = "create" /\ out.resp.code = 200 /\ out.resp.alias = NilUuid
  /\ Decode(store[NilUuid].val, GenerateRandomHexKey(1)).err # ""

\* C27: when the draw of the random key fails, Create does not call the
\* store's Set and does not answer with success: it answers that encoding
\* failed, or the program ends, and the store is left as it was.
C27_KeyFailureStoresNothing ==
  [][\/ /\ store' = store
         /\ out'.resp \in {RespError(500, "Failed to encode secret"), NoResponse}
      \/ \A req \in RandRequests, r \in RandOutcomes, e \in StoreResults :
           (req.message # <<>> /\ r[2] # "ok")
           => ~CreateWithRand(req, r[1], r[2], r[3], e) ]_vars

\* After a secret was stored, a Create answered that encoding failed, the
\* answer it gives when the key draw returned an error.
C27_Witness ==
  /\ out.op = "create"
  /\ out.resp = RespError(500, "Failed to encode secret")
  /\ \E a \in RandAliases : store[a].present

=============================================================================
